---- MODULE Spec2Model ----
(***************************************************************************)
(* A model of rcopy.py: the name sequencer filenames_with_index, the       *)
(* transfer primitive copyfile and the tree collector rcopy.               *)
(*                                                                         *)
(* A file name is a sequence of one-character strings, a directory path a  *)
(* sequence of names, and the file system a function from the existing     *)
(* directories to their files (name -> content).                           *)
(***************************************************************************)
EXTENDS Integers, Sequences, FiniteSets, TLC

VARIABLES
    fs,        \* the file system: directory path -> (file name -> content)
    fs0,       \* the file system when the first rcopy call started
    args,      \* rcopy's parameters: pattern, src, dst, move, quiet, dryrun
    paths,     \* Path.walk's stack of directories and scanned tuples
    root,      \* the directory walk yielded last
    filenames, \* fnmatch.filter(filenames, pattern) of that directory
    fi,        \* position of the current file in filenames
    gen,       \* the filenames_with_index generator in use
    yielded,   \* what a free-standing generator has yielded so far
    count,     \* rcopy's count
    log,       \* the lines printed to stdout
    xfers,     \* the copyfile calls that returned True, in order
    pc,        \* where rcopy is
    result,    \* rcopy's return value: <<>> while none, <<count>> once returned
    run,       \* 1 in the first rcopy call, 2 in the call after a dry run
    first,     \* count, log and xfers of the dry run, once a second call started
    others     \* destination names a concurrent process has created

vars == <<fs, fs0, args, paths, root, filenames, fi, gen, yielded, count, log,
          xfers, pc, result, run, first, others>>

\* ------------------------------------------------------------------ bounds

MaxSrcFiles == 3
MaxDstFiles == 2
MaxMaxIndex == 3
MaxGenIndex == 11
MaxRaces == 1

\* ------------------------------------------------------------------- names

Digits == <<"0", "1", "2", "3", "4", "5", "6", "7", "8", "9">>

\* str(n) of a natural number, as the f-string formats index
RECURSIVE Str(_)
Str(n) == IF n < 10 THEN <<Digits[n + 1]>>
          ELSE Str(n \div 10) \o <<Digits[(n % 10) + 1]>>

\* name.rfind('.'), 1-based, 0 when there is no dot
RFindDot(name) ==
    IF \E i \in 1..Len(name) : name[i] = "."
    THEN CHOOSE i \in 1..Len(name) :
             name[i] = "." /\ \A j \in (i + 1)..Len(name) : name[j] # "."
    ELSE 0

\* pathlib: a dot that is neither the first nor the last character starts
\* the suffix
HasSuffix(name) == 1 < RFindDot(name) /\ RFindDot(name) < Len(name)

Suffix(name) ==
    IF HasSuffix(name) THEN SubSeq(name, RFindDot(name), Len(name)) ELSE <<>>

Stem(name) ==
    IF HasSuffix(name) THEN SubSeq(name, 1, RFindDot(name) - 1) ELSE name

IndexText(index) ==
    IF index # 0 THEN <<"(">> \o Str(index) \o <<")">> ELSE <<>>

\* the index appended to the whole name instead of to the stem
IndexedNameAppended(name, index) == Stem(name) \o Suffix(name) \o IndexText(index)

\* Path(name.stem + (f"({index})" if index else "") + name.suffix)
IndexedName(name, index) == Stem(name) \o IndexText(index) \o Suffix(name)

\* max_index: <<>> is None, <<k>> is k
None == <<>>

\* the index started at 1 instead of 0
NewGenFromOne(name, max_index) ==
    [name |-> name, max_index |-> max_index, index |-> 1, state |-> "new"]

\* filenames_with_index(name, max_index): the generator before its first next()
NewGen(name, max_index) ==
    [name |-> name, max_index |-> max_index, index |-> 0, state |-> "new"]

\* the bound tested with > instead of ==
IndexPassed(g) == g.max_index # None /\ g.index > g.max_index[1]

\* max_index is not None and index == max_index
IndexReached(g) == g.max_index # None /\ g.index = g.max_index[1]

\* the increment of index left out
GenStepStuck(g) ==
    IF g.state = "new" THEN [g EXCEPT !.state = "yielded"]
    ELSE IF IndexReached(g) THEN [g EXCEPT !.state = "done"]
    ELSE g

\* one next() on the generator: run to the next yield, or return
GenStep(g) ==
    IF g.state = "new" THEN [g EXCEPT !.state = "yielded"]
    ELSE IF IndexReached(g) THEN [g EXCEPT !.state = "done"]
    ELSE [g EXCEPT !.index = g.index + 1]

\* the value the generator is suspended at
Current(g) == IndexedName(g.name, g.index)

\* ----------------------------------------------------------------- fnmatch

RECURSIVE FnMatch(_, _)
FnMatch(name, pat) ==
    IF pat = <<>> THEN name = <<>>
    ELSE IF Head(pat) = "*"
         THEN FnMatch(name, Tail(pat))
              \/ (name # <<>> /\ FnMatch(Tail(name), pat))
    ELSE IF name = <<>> THEN FALSE
    ELSE (Head(pat) = "?" \/ Head(pat) = Head(name))
         /\ FnMatch(Tail(name), Tail(pat))

FnFilter(names, pat) == SelectSeq(names, LAMBDA n : FnMatch(n, pat))

\* ------------------------------------------------------------- file system

NameA == <<"a", ".", "t", "x", "t">>
NameA1 == <<"a", "(", "1", ")", ".", "t", "x", "t">>
NameA2 == <<"a", "(", "2", ")", ".", "t", "x", "t">>
NameB == <<"b", ".", "t", "x", "t">>
NameC == <<"c", ".", "t", "x", "t">>

PatAllTxt == <<"*", ".", "t", "x", "t">>
PatOneTxt == <<"?", ".", "t", "x", "t">>

SrcRoot == << <<"s">> >>
Dir1 == Append(SrcRoot, <<"1">>)
Dir2 == Append(SrcRoot, <<"2">>)
Dir3 == Append(SrcRoot, <<"3">>)
Dir4 == Append(SrcRoot, <<"4">>)
Dir41 == Append(Dir4, <<"1">>)
Out == << <<"d">> >>

\* the content of the file first stored as dir/name; whole is FALSE for what
\* an interrupted copy left behind
Content(dir, name) == [from |-> dir, name |-> name, whole |-> TRUE]
Truncated(c) == [c EXCEPT !.whole = FALSE]
\* what a concurrent process writes
Foreign(name) == [from |-> <<>>, name |-> name, whole |-> TRUE]

SubDirs(f, dir) ==
    {p \in DOMAIN f : Len(p) = Len(dir) + 1 /\ SubSeq(p, 1, Len(dir)) = dir}

InTree(top, dir) == Len(dir) >= Len(top) /\ SubSeq(dir, 1, Len(top)) = top

\* (dir / name).exists()
Exists(f, dir, name) ==
    dir \in DOMAIN f /\ (name \in DOMAIN f[dir] \/ Append(dir, name) \in DOMAIN f)

\* open(dir / name, 'wb') and write c: creates or replaces the file
WriteFile(f, dir, name, c) ==
    [f EXCEPT ![dir] = [m \in (DOMAIN f[dir]) \cup {name} |->
                            IF m = name THEN c ELSE f[dir][m]]]

Unlink(f, dir, name) ==
    [f EXCEPT ![dir] = [m \in (DOMAIN f[dir]) \ {name} |-> f[dir][m]]]

\* shutil.copyfile(sdir / sname, ddir / dname)
ShutilCopyfile(f, sdir, sname, ddir, dname) ==
    WriteFile(f, ddir, dname, f[sdir][sname])

\* the source copied but not removed
ShutilMoveKeeps(f, sdir, sname, ddir, dname) ==
    WriteFile(f, ddir, dname, f[sdir][sname])

\* shutil.move(sdir / sname, ddir / dname), the destination not a directory
ShutilMove(f, sdir, sname, ddir, dname) ==
    WriteFile(Unlink(f, sdir, sname), ddir, dname, f[sdir][sname])

\* the orders in which scandir may list a set of entries
Orders(S) ==
    {p \in [1..Cardinality(S) -> S] : \A i, j \in DOMAIN p : p[i] = p[j] => i = j}

Reverse(s) == [i \in 1..Len(s) |-> s[Len(s) + 1 - i]]

Last(s) == s[Len(s)]
Front(s) == SubSeq(s, 1, Len(s) - 1)

\* ------------------------------------------------------------ initial states

SrcDirs == {SrcRoot, Dir1, Dir2}
SrcNames == {NameA, NameA1}
DstNames == {NameA, NameA1, NameA2}
DstChoices == {Out, Dir2}
Patterns == {PatAllTxt, PatOneTxt}

\* a file system holding the files `placed` (pairs <<dir, name>>) in `dirs`
MakeFs(dirs, placed) ==
    [d \in dirs |-> [n \in {q[2] : q \in {r \in placed : r[1] = d}} |-> Content(d, n)]]

NoGen == NewGen(<<>>, None)
NoFirst == [count |-> 0, log |-> <<>>, xfers |-> <<>>]
DirItem(path) == [kind |-> "dir", path |-> path, filenames |-> <<>>]
TupleItem(path, names) == [kind |-> "tuple", path |-> path, filenames |-> names]

\* rcopy(pattern, src, dst, move, quiet, dryrun) up to the first step of the walk
Start(f, a) ==
    /\ fs = f
    /\ fs0 = f
    /\ args = a
    /\ paths = <<DirItem(a.src)>>
    /\ root = <<>>
    /\ filenames = <<>>
    /\ fi = 0
    /\ gen = NoGen
    /\ yielded = <<>>
    /\ count = 0
    /\ log = <<>>
    /\ xfers = <<>>
    /\ pc = "walk"
    /\ result = <<>>
    /\ run = 1
    /\ first = NoFirst
    /\ others = {}

Args(pattern, dst, move, quiet, dryrun) ==
    [pattern |-> pattern, src |-> SrcRoot, dst |-> dst, move |-> move,
     quiet |-> quiet, dryrun |-> dryrun]

\* small trees: up to MaxSrcFiles files under s, s/1, s/2, and a destination
\* that is either the separate directory d (holding up to MaxDstFiles files)
\* or the source's own subdirectory s/2
InitSmall ==
    \E placed \in SUBSET (SrcDirs \X SrcNames), had \in SUBSET DstNames,
       dst \in DstChoices, pattern \in Patterns, move, quiet, dryrun \in BOOLEAN :
        /\ Cardinality(placed) <= MaxSrcFiles
        /\ Cardinality(had) <= MaxDstFiles
        /\ dst # Out => had = {}
        /\ Start(MakeFs(SrcDirs \cup {Out}, placed \cup ({Out} \X had)),
                 Args(pattern, dst, move, quiet, dryrun))

\* the tree of the module docstring
ExampleFiles ==
    {<<Dir1, NameA>>, <<Dir2, NameB>>, <<Dir3, NameA>>, <<Dir41, NameC>>}
ExampleDirs == {SrcRoot, Dir1, Dir2, Dir3, Dir4, Dir41, Out}

InitExample ==
    \E move, quiet, dryrun \in BOOLEAN :
        Start(MakeFs(ExampleDirs, ExampleFiles),
              Args(PatAllTxt, Out, move, quiet, dryrun))

Init == InitSmall \/ InitExample

\* ------------------------------------------------------------------ Path.walk

\* walk pops a directory: scandir lists it, the tuple is pushed for later and
\* the subdirectories above it, the first listed on top
Scan ==
    /\ pc = "walk"
    /\ paths # <<>>
    /\ Last(paths).kind = "dir"
    /\ LET dir == Last(paths).path IN
       \E dirs \in Orders(SubDirs(fs, dir)), names \in Orders(DOMAIN fs[dir]) :
           paths' = Front(paths) \o <<TupleItem(dir, names)>> \o Reverse(
                        [i \in 1..Len(dirs) |-> DirItem(dirs[i])])
    /\ UNCHANGED <<fs, fs0, args, root, filenames, fi, gen, yielded, count, log,
                   xfers, pc, result, run, first, others>>

\* the for loop over fnmatch.filter(...): the file at position i is next, or
\* the loop over this directory is over
ForFile(names, i) ==
    IF i <= Len(names)
    THEN /\ fi' = i
         /\ gen' = GenStep(NewGen(names[i], None))
         /\ pc' = "check"
    ELSE /\ fi' = 0
         /\ gen' = NoGen
         /\ pc' = "walk"

\* walk pops a tuple and yields it; rcopy filters its file names
Yield ==
    /\ pc = "walk"
    /\ paths # <<>>
    /\ Last(paths).kind = "tuple"
    /\ paths' = Front(paths)
    /\ root' = Last(paths).path
    /\ filenames' = FnFilter(Last(paths).filenames, args.pattern)
    /\ ForFile(filenames', 1)
    /\ UNCHANGED <<fs, fs0, args, yielded, count, log, xfers, result, run, first,
                   others>>

\* the walk is exhausted: return count
Return ==
    /\ pc = "walk"
    /\ paths = <<>>
    /\ pc' = "done"
    /\ result' = <<count>>
    /\ UNCHANGED <<fs, fs0, args, paths, root, filenames, fi, gen, yielded, count,
                   log, xfers, run, first, others>>

\* ------------------------------------------------------------------- copyfile

SrcName == filenames[fi]
DstName == Current(gen)

Line == [verb |-> IF args.move THEN "Move" ELSE "Copy",
         src |-> <<root, SrcName>>, dst |-> <<args.dst, DstName>>]

Printed == IF args.quiet THEN log ELSE Append(log, Line)

Xfer == [src |-> <<root, SrcName>>, dst |-> DstName, index |-> gen.index,
         c |-> fs[root][SrcName]]

\* copyfile returned True: count += 1; break
Counted ==
    /\ count' = count + 1
    /\ xfers' = Append(xfers, Xfer)
    /\ ForFile(filenames, fi + 1)

\* dst.exists(): return False, and rcopy takes the next candidate
CopyfileExists ==
    /\ pc = "check"
    /\ Exists(fs, args.dst, DstName)
    /\ gen' = GenStep(gen)
    /\ UNCHANGED <<fs, fs0, args, paths, root, filenames, fi, yielded, count, log,
                   xfers, pc, result, run, first, others>>

\* dst does not exist and dryrun: print, return True
CopyfileDryrun ==
    /\ pc = "check"
    /\ ~Exists(fs, args.dst, DstName)
    /\ args.dryrun
    /\ log' = Printed
    /\ Counted
    /\ UNCHANGED <<fs, fs0, args, paths, root, filenames, yielded, result, run,
                   first, others>>

\* dst does not exist and not dryrun: print; the shutil call is next
CopyfilePrint ==
    /\ pc = "check"
    /\ ~Exists(fs, args.dst, DstName)
    /\ ~args.dryrun
    /\ log' = Printed
    /\ pc' = "mutate"
    /\ UNCHANGED <<fs, fs0, args, paths, root, filenames, fi, gen, yielded, count,
                   xfers, result, run, first, others>>

CopyfileCopy ==
    /\ pc = "mutate"
    /\ ~args.move
    /\ fs' = ShutilCopyfile(fs, root, SrcName, args.dst, DstName)
    /\ Counted
    /\ UNCHANGED <<fs0, args, paths, root, filenames, yielded, log, result, run,
                   first, others>>

CopyfileMove ==
    /\ pc = "mutate"
    /\ args.move
    /\ fs' = ShutilMove(fs, root, SrcName, args.dst, DstName)
    /\ Counted
    /\ UNCHANGED <<fs0, args, paths, root, filenames, yielded, log, result, run,
                   first, others>>

\* the error caught and the file skipped: rcopy goes on with the next file
CopyfileRaiseSkipped ==
    /\ pc = "mutate"
    /\ fs' \in {fs, WriteFile(fs, args.dst, DstName, Truncated(fs[root][SrcName]))}
    /\ ForFile(filenames, fi + 1)
    /\ UNCHANGED <<fs0, args, paths, root, filenames, yielded, count, log, xfers,
                   result, run, first, others>>

\* the shutil call raises (permission denied, disk full, ...): nothing
\* catches it, rcopy is left without a return value. The destination is as
\* it was or holds what the interrupted copy had written
CopyfileRaise ==
    /\ pc = "mutate"
    /\ fs' \in {fs, WriteFile(fs, args.dst, DstName, Truncated(fs[root][SrcName]))}
    /\ pc' = "failed"
    /\ UNCHANGED <<fs0, args, paths, root, filenames, fi, gen, yielded, count, log,
                   xfers, result, run, first, others>>

\* a second call, with dryrun off, after a dry run returned
Rerun ==
    /\ pc = "done"
    /\ run = 1
    /\ args.dryrun
    /\ first' = [count |-> count, log |-> log, xfers |-> xfers]
    /\ args' = [args EXCEPT !.dryrun = FALSE]
    /\ paths' = <<DirItem(args.src)>>
    /\ count' = 0
    /\ log' = <<>>
    /\ xfers' = <<>>
    /\ result' = <<>>
    /\ run' = 2
    /\ pc' = "walk"
    /\ UNCHANGED <<fs, fs0, root, filenames, fi, gen, yielded, others>>

\* another process creates the candidate between copyfile's dst.exists() and
\* its shutil call
OtherCreates ==
    /\ pc = "mutate"
    /\ Cardinality(others) < MaxRaces
    /\ ~Exists(fs, args.dst, DstName)
    /\ fs' = WriteFile(fs, args.dst, DstName, Foreign(DstName))
    /\ others' = others \cup {DstName}
    /\ UNCHANGED <<fs0, args, paths, root, filenames, fi, gen, yielded, count, log,
                   xfers, pc, result, run, first>>

Next ==
    \/ Scan
    \/ Yield
    \/ Return
    \/ CopyfileExists
    \/ CopyfileDryrun
    \/ CopyfilePrint
    \/ CopyfileCopy
    \/ CopyfileMove
    \/ CopyfileRaise
    \/ Rerun

Spec == Init /\ [][Next]_vars

NextRace == Next \/ OtherCreates

SpecRace == Init /\ [][NextRace]_vars

\* fairness: the interpreter runs rcopy's next statement whenever there is one
SpecFair == Init /\ [][Next]_vars /\ WF_vars(Next)

\* ------------------------------------------- the name sequencer on its own

NameAbc == <<"a", "b", "c">>
NameHidden == <<".", "b">>
NameDotEnd == <<"a", ".">>
NameTwoDots == <<"a", ".", "b", ".", "c">>

SeqNames == {NameA, NameA1, NameAbc, NameHidden, NameDotEnd, NameTwoDots}
MaxIndexes == {None} \cup {<<k>> : k \in 0..MaxMaxIndex}

\* a caller holds filenames_with_index(name, max_index) and nothing else runs
InitSeq ==
    /\ \E name \in SeqNames, max_index \in MaxIndexes : gen = NewGen(name, max_index)
    /\ yielded = <<>>
    /\ pc = "idle"
    /\ fs = MakeFs({}, {})
    /\ fs0 = fs
    /\ args = Args(<<>>, Out, FALSE, FALSE, FALSE)
    /\ paths = <<>>
    /\ root = <<>>
    /\ filenames = <<>>
    /\ fi = 0
    /\ count = 0
    /\ log = <<>>
    /\ xfers = <<>>
    /\ result = <<>>
    /\ run = 1
    /\ first = NoFirst
    /\ others = {}

\* the caller's next(): a value is yielded, or the generator returns
GenNext ==
    /\ pc = "idle"
    /\ gen.state # "done"
    /\ gen.index < MaxGenIndex
    /\ gen' = GenStep(gen)
    /\ yielded' = IF gen'.state = "done" THEN yielded
                  ELSE Append(yielded, Current(gen'))
    /\ UNCHANGED <<fs, fs0, args, paths, root, filenames, fi, count, log, xfers,
                   pc, result, run, first, others>>

SpecSeq == InitSeq /\ [][GenNext]_vars

\* ------------------------------------------------------------------ claims

DigitSet == {Digits[i] : i \in 1..Len(Digits)}
DigitValue(ch) == CHOOSE d \in 0..9 : Digits[d + 1] = ch

\* the number a string of decimal digits denotes
RECURSIVE Value(_)
Value(ds) == IF ds = <<>> THEN 0 ELSE 10 * Value(Front(ds)) + DigitValue(Last(ds))

\* where the extension of f starts: at its last dot, when that dot is
\* neither the first nor the last character; Len(f) + 1 when f has none
ExtensionAt(f) ==
    IF \E p \in 2..(Len(f) - 1) : f[p] = "." /\ \A j \in (p + 1)..Len(f) : f[j] # "."
    THEN CHOOSE p \in 2..(Len(f) - 1) :
             f[p] = "." /\ \A j \in (p + 1)..Len(f) : f[j] # "."
    ELSE Len(f) + 1

\* y is f with "(k)" put right in front of f's extension (at the end of f
\* when f has none), k written in decimal without a leading zero
Sandwich(y, f, k) ==
    LET e == ExtensionAt(f)
        n == Len(y) - Len(f) - 2
    IN  /\ n >= 1
        /\ SubSeq(y, 1, e - 1) = SubSeq(f, 1, e - 1)
        /\ y[e] = "("
        /\ \A i \in (e + 1)..(e + n) : y[i] \in DigitSet
        /\ y[e + 1] # "0"
        /\ Value(SubSeq(y, e + 1, e + n)) = k
        /\ y[e + n + 1] = ")"
        /\ SubSeq(y, e + n + 2, Len(y)) = SubSeq(f, e, Len(f))

\* C2: the sequencer yields the name itself at index 0 and, at every index
\* k >= 1, the name with "(k)" inserted immediately before its extension
\* (appended when there is no extension); no two candidates of one sequence
\* are equal.
C2_Candidates ==
    \A i \in 1..Len(yielded) :
        /\ i = 1 => yielded[i] = gen.name
        /\ i > 1 => Sandwich(yielded[i], gen.name, i - 1)
        /\ \A j \in 1..(i - 1) : yielded[j] # yielded[i]

\* a name with an extension has been sequenced up to a two-digit index
C2_Witness == gen.name = NameTwoDots /\ Len(yielded) > 10

\* C3: without max_index the sequence never ends; with max_index it ends
\* right after the element at index max_index, max_index + 1 elements long.
C3_Length ==
    pc = "idle" =>
        /\ gen.max_index = None =>
               /\ gen.state # "done"
               /\ GenStep(gen).state # "done"
               /\ gen.state # "new" => Len(yielded) = gen.index + 1
        /\ gen.max_index # None =>
               LET m == gen.max_index[1] IN
               /\ Len(yielded) <= m + 1
               /\ gen.state = "done" => Len(yielded) = m + 1
               /\ Len(yielded) = m + 1 => GenStep(gen).state = "done"
               /\ Len(yielded) < m + 1 => GenStep(gen).state # "done"

\* the sequence bounded by max_index = 0 has ended, one element long
C3_Witness == gen.state = "done" /\ gen.max_index = <<0>> /\ Len(yielded) = 1

\* the files under the source root in file system f, as pairs <<dir, name>>
TreeFiles(f) ==
    UNION {{<<d, n>> : n \in DOMAIN f[d]} : d \in {x \in DOMAIN f : InTree(args.src, x)}}

\* the source files the pattern matches, as the run found them
MatchedFiles == {q \in TreeFiles(fs0) : FnMatch(q[2], args.pattern)}
UnmatchedFiles == TreeFiles(fs0) \ MatchedFiles

DstOutside == ~InTree(args.src, args.dst)
DstFiles(f) == DOMAIN f[args.dst]

\* C1: a run with dryrun off never changes a file that is in the destination:
\* whatever is there, from before the run or placed by it, keeps its name and
\* its content in every step.
C1_NoOverwrite ==
    [][~args.dryrun =>
          \A n \in DstFiles(fs) : n \in DstFiles(fs') /\ fs'[args.dst][n] = fs[args.dst][n]]_vars

\* C1 with the destination outside the source tree, or in copy mode: there
\* the files of the destination keep name and content, and a file whose own
\* name is taken is stored under a suffixed name.
C1_OutsideOrCopy ==
    [][(~args.dryrun /\ (DstOutside \/ ~args.move)) =>
          /\ \A n \in DstFiles(fs) :
                 n \in DstFiles(fs') /\ fs'[args.dst][n] = fs[args.dst][n]
          /\ Len(xfers') = Len(xfers) + 1 =>
                 LET x == Last(xfers') IN
                 /\ x.dst \notin DstFiles(fs)
                 /\ fs'[args.dst][x.dst] = x.c
                 /\ x.src[2] \in DstFiles(fs) => x.index >= 1 /\ x.dst # x.src[2]]_vars

BaseNames == {q[2] : q \in MatchedFiles}
Sharing(n) == Cardinality({q \in MatchedFiles : q[2] = n})

\* the destination names are name, name(1), ..., name(n-1) for each base name
GapFree ==
    DstFiles(fs) = UNION {{IndexedName(n, j) : j \in 0..(Sharing(n) - 1)} : n \in BaseNames}

\* a copy run that returned, into an empty destination outside the source tree
CopiedIntoEmpty ==
    /\ pc = "done"
    /\ ~args.dryrun
    /\ ~args.move
    /\ DstOutside
    /\ DstFiles(fs0) = {}

IsExample == fs0 = MakeFs(ExampleDirs, ExampleFiles)

ExampleResult ==
    DstFiles(fs) = {NameA, NameB, NameA1, NameC} /\ result = <<4>>

\* C4 as claimed: one destination file per matched file, named gap-free per
\* base name, and the count is the number of matched files.
C4_GapFreeAlways ==
    CopiedIntoEmpty =>
        /\ result = <<Cardinality(MatchedFiles)>>
        /\ Cardinality(DstFiles(fs)) = Cardinality(MatchedFiles)
        /\ GapFree
        /\ IsExample => ExampleResult

\* no matched base name is a suffixed candidate of another matched base name
NoCross ==
    \A n, m \in BaseNames :
        n # m => \A j \in 1..Cardinality(MatchedFiles) : m # IndexedName(n, j)

\* C4 amended: one destination file per matched file, each under a candidate
\* of its own base name, the count the number of matched files; the names
\* are gap-free when no matched base name is a suffixed candidate of another
\* one, as in the docstring's tree.
C4_OnePerFile ==
    CopiedIntoEmpty =>
        /\ result = <<Cardinality(MatchedFiles)>>
        /\ Cardinality(DstFiles(fs)) = Cardinality(MatchedFiles)
        /\ {fs[args.dst][m] : m \in DstFiles(fs)} = {fs0[q[1]][q[2]] : q \in MatchedFiles}
        /\ \A m \in DstFiles(fs) :
               \E j \in 0..(Cardinality(MatchedFiles) - 1) :
                   m = IndexedName(fs[args.dst][m].name, j)
        /\ NoCross => GapFree
        /\ IsExample => ExampleResult

\* two matched files share a base name and were copied gap-free
C4_Witness ==
    CopiedIntoEmpty /\ NoCross /\ \E n \in BaseNames : Sharing(n) >= 2

\* C5: a dry run changes no file, and the real run from the same file system,
\* its destination empty, returns the dry run's count.
C5_DryRunCount ==
    /\ args.dryrun => fs = fs0
    /\ (run = 2 /\ pc = "done" /\ DstFiles(fs0) = {}) => result = <<first.count>>

\* C6: every line a dry run printed names the transfer the real run from the
\* same file system performs for that source file.
C6_DryRunReport ==
    (run = 2 /\ pc = "done") =>
        \A i \in 1..Len(first.log) :
            \E j \in 1..Len(xfers) :
                /\ xfers[j].src = first.log[i].src
                /\ <<args.dst, xfers[j].dst>> = first.log[i].dst

\* the last transfer of content c put it under this name
LastPlaced(xs, f) ==
    \A i \in 1..Len(xs) :
        (\A j \in (i + 1)..Len(xs) : xs[j].c # xs[i].c) =>
            xs[i].dst \in DstFiles(f) /\ f[args.dst][xs[i].dst] = xs[i].c

C8_Abort ==
    [][/\ pc # "failed"
       /\ (pc = "mutate" /\ pc' # "mutate" /\ xfers' = xfers) => pc' = "failed"
       /\ pc' = "failed" =>
              /\ result' = <<>>
              /\ count' = count /\ paths' = paths /\ fi' = fi
              /\ LastPlaced(xfers, fs')
              /\ \A n \in DstFiles(fs) :
                     n \in DstFiles(fs') /\ fs'[args.dst][n] = fs[args.dst][n]]_vars

\* a run failed after a transfer, with matched files not yet attempted
C8_Witness ==
    /\ pc = "failed"
    /\ Len(xfers) >= 1
    /\ Len(xfers) + 1 < Cardinality(MatchedFiles)
    /\ \A i \in 1..Len(xfers) : xfers[i].dst \in DstFiles(fs)

\* C9: when the destination candidate exists at the shutil call (another
\* process created it after dst.exists()), and no other error strikes, the
\* call leaves that file as it is, copyfile reports "already exists" and
\* rcopy takes the next candidate for the same source file.
C9_RaceSafe ==
    [][(pc = "mutate" /\ Exists(fs, args.dst, DstName) /\ pc' \notin {"mutate", "failed"}) =>
          /\ fs'[args.dst][DstName] = fs[args.dst][DstName]
          /\ pc' = "check"
          /\ fi' = fi
          /\ gen' = GenStep(gen)
          /\ count' = count]_vars

\* every rcopy call has returned or failed, and no further call is due
Finished == pc = "failed" \/ (pc = "done" /\ (run = 2 \/ ~args.dryrun))

\* the entries of the destination directory: its files and subdirectories
Entries(f) == Cardinality(DstFiles(f)) + Cardinality(SubDirs(f, args.dst))

\* a transfer was counted at the lowest index whose candidate was absent
StopsAtLowest ==
    Len(xfers') = Len(xfers) + 1 =>
        LET x == Last(xfers') IN
        /\ ~Exists(fs, args.dst, IndexedName(x.src[2], x.index))
        /\ \A j \in 0..(x.index - 1) : Exists(fs, args.dst, IndexedName(x.src[2], j))
        /\ x.index <= Entries(fs)

\* each matched source file and each directory entry is transferred once
OncePerEntry ==
    pc = "done" =>
        /\ count = Len(xfers)
        /\ \A i, j \in 1..Len(xfers) : xfers[i].src = xfers[j].src => i = j
        /\ \A q \in MatchedFiles : \E i \in 1..Len(xfers) : xfers[i].src = q

\* C10 as claimed: rcopy terminates, every candidate loop stops at the lowest
\* absent index, which under dryrun is index 0, and every matched file is
\* processed exactly once.
C10_DryRunIndexZero ==
    /\ <>[]Finished
    /\ [][StopsAtLowest /\ (Len(xfers') = Len(xfers) + 1 /\ args.dryrun
                               => Last(xfers').index = 0)]_vars
    /\ []OncePerEntry

\* C10 amended: rcopy terminates; every candidate loop, under dryrun too,
\* stops at the lowest index whose name is absent from the destination, at
\* most the number of entries of the destination; every matched entry the
\* walk yields is processed exactly once.
C10_Terminates ==
    /\ <>[]Finished
    /\ [][StopsAtLowest]_vars
    /\ []OncePerEntry

\* a dry run counted a file at index 1, its own name being taken
C10_Witness ==
    /\ args.dryrun
    /\ xfers # <<>>
    /\ Last(xfers).index = 1
    /\ Last(xfers).src[2] \in DstFiles(fs)

====
